---- MODULE Spec2Model ----
(***************************************************************************)
(* Model of createVegaLoader (public/vega_view/vega_loader.js): the search *)
(* request rewriter of the Vega visualisation.  JavaScript values are      *)
(* tagged records; a mapping keeps its keys in insertion order, as         *)
(* Object.keys reports them.                                               *)
(***************************************************************************)
EXTENDS Integers, Sequences, FiniteSets, TLC

VARIABLES tfBounds, dashCtx, ctxByRef, enableExternalUrls, _timeBounds, call, outcome

vars == <<tfBounds, dashCtx, ctxByRef, enableExternalUrls, _timeBounds, call, outcome>>

(***************************************************************************)
(* Bounds of the model.                                                    *)
(***************************************************************************)
MaxLen == 3
MaxMust == 2

(***************************************************************************)
(* JavaScript values.                                                      *)
(***************************************************************************)
Undef == [t |-> "undefined"]
Null == [t |-> "null"]
B(b) == [t |-> "boolean", v |-> b]
N(n) == [t |-> "number", v |-> n]
S(s) == [t |-> "string", v |-> s]
A(s) == [t |-> "array", v |-> s]
O(s) == [t |-> "object", v |-> s]
KV(k, x) == [k |-> k, val |-> x]

SIMPLE_QUERY == "%context_query%"
TIMEFILTER == "%timefilter%"
AUTOINTERVAL == "%autointerval%"
MUST_CLAUSE == "%dashboard_context-must_clause%"
MUST_NOT_CLAUSE == "%dashboard_context-must_not_clause%"

\* the truth value a condition gives a value
Truthy(x) ==
  CASE x.t = "undefined" -> FALSE
    [] x.t = "null" -> FALSE
    [] x.t = "boolean" -> x.v
    [] x.t = "number" -> x.v # 0
    [] x.t = "string" -> x.v # ""
    [] OTHER -> TRUE

\* typeof
TypeOf(x) ==
  CASE x.t = "null" -> "object"
    [] x.t = "array" -> "object"
    [] OTHER -> x.t

IsArray(x) == x.t = "array"

IsMap(x) == x.t = "object"

\* Object.keys(obj), in insertion order
Keys(obj) == [i \in 1..Len(obj.v) |-> obj.v[i].k]

HasKey(obj, key) == IsMap(obj) /\ \E i \in 1..Len(obj.v) : obj.v[i].k = key

\* obj[key]: undefined on a missing key and on a value without own keys
Get(obj, key) ==
  IF HasKey(obj, key)
  THEN obj.v[CHOOSE i \in 1..Len(obj.v) : obj.v[i].k = key].val
  ELSE Undef

\* obj[key] = x: in place when the key exists, appended otherwise
Put(obj, key, x) ==
  IF HasKey(obj, key)
  THEN O([i \in 1..Len(obj.v) |-> IF obj.v[i].k = key THEN KV(key, x) ELSE obj.v[i]])
  ELSE O(Append(obj.v, KV(key, x)))

\* delete obj[key]
Delete(obj, key) == O(SelectSeq(obj.v, LAMBDA e : e.k # key))

\* arr.splice(pos, 1, ...items), positions counted from 1
Splice(arr, pos, items) == SubSeq(arr, 1, pos - 1) \o items \o SubSeq(arr, pos + 1, Len(arr))

(***************************************************************************)
(* The state a call threads through its helpers: the memoized bounds, the  *)
(* error thrown so far ("" when none) and how often each provider was      *)
(* called.                                                                 *)
(***************************************************************************)
NoBounds == [t |-> "undefined"]
NoError == ""

St(tb) == [tb |-> tb, err |-> NoError, tf |-> 0, ctx |-> 0]

Throw(st, e) == [st EXCEPT !.err = e]

\* timefilter.getBounds() memoized in _timeBounds
getTimeRange(st) ==
  IF st.tb # NoBounds
  THEN st
  ELSE [st EXCEPT !.tb = [min |-> tfBounds.min, max |-> tfBounds.max], !.tf = @ + 1]

(***************************************************************************)
(* A duration in milliseconds as whole seconds, milliseconds and whether a *)
(* fraction of a millisecond is left: the table of roundInterval reaches   *)
(* past 2^31.                                                              *)
(***************************************************************************)
Dur(s, ms) == [neg |-> FALSE, s |-> s, ms |-> ms, frac |-> FALSE]

\* a / b for integers, b # 0
Quot(a, b) ==
  LET na == IF a < 0 THEN 0 - a ELSE a
      nb == IF b < 0 THEN 0 - b ELSE b
      q == na \div nb
  IN [neg |-> (a # 0) /\ ((a < 0) # (b < 0)), s |-> q \div 1000, ms |-> q % 1000,
      frac |-> na % nb # 0]

\* x <= s seconds and ms milliseconds
LE(x, s, ms) ==
  \/ x.neg
  \/ x.s < s
  \/ x.s = s /\ x.ms < ms
  \/ x.s = s /\ x.ms = ms /\ ~x.frac

\* x < s seconds and ms milliseconds
LT(x, s, ms) ==
  \/ x.neg
  \/ x.s < s
  \/ x.s = s /\ x.ms < ms

\* the first two tests in the wrong order
roundInterval_swapped(interval) ==
  IF LE(interval, 5, 0) THEN "1s"
  ELSE IF LE(interval, 0, 500) THEN "100ms"
  ELSE IF LE(interval, 7, 500) THEN "5s"
  ELSE IF LE(interval, 15, 0) THEN "10s"
  ELSE IF LE(interval, 45, 0) THEN "30s"
  ELSE IF LE(interval, 180, 0) THEN "1m"
  ELSE IF LE(interval, 450, 0) THEN "5m"
  ELSE IF LE(interval, 1200, 0) THEN "10m"
  ELSE IF LE(interval, 2700, 0) THEN "30m"
  ELSE IF LE(interval, 7200, 0) THEN "1h"
  ELSE IF LE(interval, 21600, 0) THEN "3h"
  ELSE IF LE(interval, 86400, 0) THEN "12h"
  ELSE IF LE(interval, 604800, 0) THEN "24h"
  ELSE IF LE(interval, 1814400, 0) THEN "1w"
  ELSE IF LT(interval, 3628800, 0) THEN "30d"
  ELSE "1y"

roundInterval(interval) ==
  IF LE(interval, 0, 500) THEN "100ms"
  ELSE IF LE(interval, 5, 0) THEN "1s"
  ELSE IF LE(interval, 7, 500) THEN "5s"
  ELSE IF LE(interval, 15, 0) THEN "10s"
  ELSE IF LE(interval, 45, 0) THEN "30s"
  ELSE IF LE(interval, 180, 0) THEN "1m"
  ELSE IF LE(interval, 450, 0) THEN "5m"
  ELSE IF LE(interval, 1200, 0) THEN "10m"
  ELSE IF LE(interval, 2700, 0) THEN "30m"
  ELSE IF LE(interval, 7200, 0) THEN "1h"
  ELSE IF LE(interval, 21600, 0) THEN "3h"
  ELSE IF LE(interval, 86400, 0) THEN "12h"
  ELSE IF LE(interval, 604800, 0) THEN "24h"
  ELSE IF LE(interval, 1814400, 0) THEN "1w"
  ELSE IF LT(interval, 3628800, 0) THEN "30d"
  ELSE "1y"

(***************************************************************************)
(* Time bounds.  A helper returns the value it produced and the threaded   *)
(* state; after a throw the value is what the mutated argument holds.      *)
(***************************************************************************)
Ret(x, st) == [val |-> x, st |-> st]

StrEq(x, s) == x.t = "string" /\ x.v = s

IsTrue(x) == x.t = "boolean" /\ x.v

\* the switch over opts.unit || 'd'; 0 stands for the default branch
Multiplier(unit) ==
  IF StrEq(unit, "w") \/ StrEq(unit, "week") THEN 1000 * 60 * 60 * 24 * 7
  ELSE IF StrEq(unit, "d") \/ StrEq(unit, "day") THEN 1000 * 60 * 60 * 24
  ELSE IF StrEq(unit, "h") \/ StrEq(unit, "hour") THEN 1000 * 60 * 60
  ELSE IF StrEq(unit, "m") \/ StrEq(unit, "minute") THEN 1000 * 60
  ELSE IF StrEq(unit, "s") \/ StrEq(unit, "second") THEN 1000
  ELSE 0

getTimeBound(opts, type, st) ==
  LET st1 == getTimeRange(st)
      result == st1.tb[type]
      shift == Get(opts, "shift")
      unit == IF Truthy(Get(opts, "unit")) THEN Get(opts, "unit") ELSE S("d")
  IN IF Truthy(shift)
     THEN IF TypeOf(shift) # "number"
          THEN Ret(Undef, Throw(st1, "InvalidShift"))
          ELSE IF Multiplier(unit) = 0
               THEN Ret(Undef, Throw(st1, "UnknownUnit"))
               ELSE Ret(N(result + shift.v * Multiplier(unit)), st1)
     ELSE Ret(N(result), st1)

\* lines 123-128, once obj.gte is set
RangeUpper(obj, hi) ==
  IF hi.st.err # NoError
  THEN Ret(obj, hi.st)
  ELSE Ret(Delete(Delete(Delete(Put(Put(obj, "lte", hi.val), "format", S("epoch_millis")),
                                TIMEFILTER), "shift"), "unit"),
           hi.st)

\* lines 122-123, once the lower bound is computed
RangeLower(obj, lo) ==
  IF lo.st.err # NoError
  THEN Ret(obj, lo.st)
  ELSE RangeUpper(Put(obj, "gte", lo.val), getTimeBound(Put(obj, "gte", lo.val), "max", lo.st))

createRangeFilter(obj, st) == RangeLower(obj, getTimeBound(obj, "min", st))

(***************************************************************************)
(* The tree walker.  ArrayLoop is the cursor loop over a sequence, ObjLoop *)
(* the loop over the keys Object.keys returned when the loop began.        *)
(***************************************************************************)
RECURSIVE injectQueryContextVars(_, _, _)
RECURSIVE ArrayLoop(_, _, _, _)
RECURSIVE ObjLoop(_, _, _, _, _)

\* an absent clause leaves the marker where it is
Clause_keepsMarker(arr, pos, clause) ==
  IF Truthy(clause)
  THEN IF IsArray(clause)
       THEN [arr |-> Splice(arr, pos, clause.v), pos |-> pos + Len(clause.v)]
       ELSE [arr |-> [arr EXCEPT ![pos] = clause], pos |-> pos + 1]
  ELSE [arr |-> arr, pos |-> pos + 1]

\* the cursor advances after a removal
Clause_skipsNext(arr, pos, clause) ==
  IF Truthy(clause)
  THEN IF IsArray(clause)
       THEN [arr |-> Splice(arr, pos, clause.v), pos |-> pos + Len(clause.v)]
       ELSE [arr |-> [arr EXCEPT ![pos] = clause], pos |-> pos + 1]
  ELSE [arr |-> Splice(arr, pos, <<>>), pos |-> pos + 1]

\* one marker element resolved to clause: the sequence and the cursor after it
Clause(arr, pos, clause) ==
  IF Truthy(clause)
  THEN IF IsArray(clause)
       THEN [arr |-> Splice(arr, pos, clause.v), pos |-> pos + Len(clause.v)]
       ELSE [arr |-> [arr EXCEPT ![pos] = clause], pos |-> pos + 1]
  ELSE [arr |-> Splice(arr, pos, <<>>), pos |-> pos]

\* ctx && ctx.bool && ctx.bool[ctxTag], for the ctx dashboardContext() returns
ContextClause(ctxTag) ==
  IF Truthy(dashCtx) /\ Truthy(Get(dashCtx, "bool"))
  THEN Get(Get(dashCtx, "bool"), ctxTag)
  ELSE Undef

\* the loop goes on after a marker
AfterClause(c, isQuery, st) == ArrayLoop(c.arr, c.pos, isQuery, [st EXCEPT !.ctx = @ + 1])

\* the loop goes on after any other element
AfterItem(arr, pos, isQuery, r) == ArrayLoop([arr EXCEPT ![pos] = r.val], pos + 1, isQuery, r.st)

ArrayLoop(arr, pos, isQuery, st) ==
  IF st.err # NoError \/ pos > Len(arr)
  THEN Ret(A(arr), st)
  ELSE IF isQuery /\ (StrEq(arr[pos], MUST_CLAUSE) \/ StrEq(arr[pos], MUST_NOT_CLAUSE))
  THEN AfterClause(Clause(arr, pos, ContextClause(IF StrEq(arr[pos], MUST_CLAUSE)
                                                  THEN "must" ELSE "must_not")),
                   isQuery, st)
  ELSE AfterItem(arr, pos, isQuery, injectQueryContextVars(arr[pos], isQuery, st))

\* obj.interval = roundInterval((bounds.max - bounds.min) / size)
SetInterval(obj, size, st1) ==
  Ret(Put(obj, "interval", S(roundInterval(Quot(st1.tb.max - st1.tb.min, size)))), st1)

\* "interval": { "%autointerval%": true|number }
AutoInterval(obj, given, st) ==
  IF IsTrue(given)
  THEN SetInterval(obj, 50, getTimeRange(st))
  ELSE IF TypeOf(given) # "number"
  THEN Ret(obj, Throw(st, "InvalidAutoInterval"))
  ELSE SetInterval(obj, given.v, getTimeRange(st))

\* obj[prop] = the value a helper returned, unless it threw
Assign(obj, prop, r) ==
  IF r.st.err # NoError THEN Ret(obj, r.st) ELSE Ret(Put(obj, prop, r.val), r.st)

\* obj[prop] as the helper that mutated it left it
Mutated(obj, prop, r) == Ret(Put(obj, prop, r.val), r.st)

\* the bound of 'min' and 'max' is computed and not stored
TimeFilter_dropsBound(obj, prop, subObj, isQuery, st) ==
  IF StrEq(Get(subObj, TIMEFILTER), "min") \/ StrEq(Get(subObj, TIMEFILTER), "max")
  THEN Ret(obj, getTimeBound(subObj, Get(subObj, TIMEFILTER).v, st).st)
  ELSE IF IsTrue(Get(subObj, TIMEFILTER))
  THEN Mutated(obj, prop, createRangeFilter(subObj, st))
  ELSE IF Get(subObj, TIMEFILTER) = Undef
  THEN Mutated(obj, prop, injectQueryContextVars(subObj, isQuery, st))
  ELSE Ret(obj, Throw(st, "InvalidTimefilterValue"))

\* the switch over subObj['%timefilter%']
TimeFilter(obj, prop, subObj, isQuery, st) ==
  IF StrEq(Get(subObj, TIMEFILTER), "min") \/ StrEq(Get(subObj, TIMEFILTER), "max")
  THEN Assign(obj, prop, getTimeBound(subObj, Get(subObj, TIMEFILTER).v, st))
  ELSE IF IsTrue(Get(subObj, TIMEFILTER))
  THEN Mutated(obj, prop, createRangeFilter(subObj, st))
  ELSE IF Get(subObj, TIMEFILTER) = Undef
  THEN Mutated(obj, prop, injectQueryContextVars(subObj, isQuery, st))
  ELSE Ret(obj, Throw(st, "InvalidTimefilterValue"))

\* every value under 'interval' is taken for an auto-interval
IsAutoInterval_anyValue(prop, subObj) == prop = "interval"

\* prop === 'interval' && subObj['%autointerval%']
IsAutoInterval(prop, subObj) == prop = "interval" /\ Truthy(Get(subObj, AUTOINTERVAL))

\* the loop goes on with the next key
NextKey(r, keys, i, isQuery) == ObjLoop(r.val, keys, i + 1, isQuery, r.st)

\* one key of the loop, subObj = obj[prop]
Key(obj, prop, subObj, isQuery, st) ==
  IF ~Truthy(subObj) \/ TypeOf(obj) # "object"
  THEN Ret(obj, st)
  ELSE IF IsAutoInterval(prop, subObj)
  THEN AutoInterval(obj, Get(subObj, AUTOINTERVAL), st)
  ELSE TimeFilter(obj, prop, subObj, isQuery, st)

ObjLoop(obj, keys, i, isQuery, st) ==
  IF st.err # NoError \/ i > Len(keys)
  THEN Ret(obj, st)
  ELSE NextKey(Key(obj, keys[i], Get(obj, keys[i]), isQuery, st), keys, i, isQuery)

injectQueryContextVars(obj, isQuery, st) ==
  IF Truthy(obj) /\ TypeOf(obj) = "object"
  THEN IF IsArray(obj)
       THEN ArrayLoop(obj.v, 1, isQuery, st)
       ELSE ObjLoop(obj, Keys(obj), 1, isQuery, st)
  ELSE Ret(obj, st)

(***************************************************************************)
(* The request builder and the loader.  A call yields the error it threw,  *)
(* the request as the call left it, whether es.search and the default      *)
(* loader were reached, the threaded state and the dashboard context       *)
(* document as the call left it.                                           *)
(***************************************************************************)
Res(err, uri, sent, st, ctx) ==
  [err |-> err, val |-> uri, sent |-> sent, defaultLoad |-> FALSE, st |-> st, ctx |-> ctx]

\* obj[key] mutated in place: nothing to write when the key is missing
Upd(obj, key, x) == IF HasKey(obj, key) THEN Put(obj, key, x) ELSE obj

\* must.push({range: {[field]: r}}), r the range filter the argument evaluated to
PushClause(ctx, must, field, r) ==
  IF r.st.err # NoError
  THEN Ret(ctx, r.st)
  ELSE IF ~IsArray(must)
  THEN Ret(ctx, Throw(r.st, "TypeError"))
  ELSE Ret(Put(ctx, "bool",
               Put(Get(ctx, "bool"), "must",
                   A(Append(must.v, O(<<KV("range", O(<<KV(field.v, r.val)>>))>>))))),
           r.st)

\* body.query.bool.must.push({range: {[field]: createRangeFilter({'%timefilter%': true})}})
PushRange(ctx, field, st) ==
  IF Get(Get(ctx, "bool"), "must").t \in {"undefined", "null"}
  THEN Ret(ctx, Throw(st, "TypeError"))
  ELSE PushClause(ctx, Get(Get(ctx, "bool"), "must"), field,
                  createRangeFilter(O(<<KV(TIMEFILTER, B(TRUE))>>), st))

\* the request and the context after the push of lines 29-36
RangeQuery(uri, body, p) ==
  Res(p.st.err, Put(uri, "body", Put(body, "query", p.val)), FALSE, p.st,
      IF ctxByRef THEN p.val ELSE dashCtx)

\* the branch taken when uri['%context_query%'] is truthy, up to line 36
SimpleQuery(uri, body, field, st) ==
  IF Truthy(Get(body, "query"))
  THEN Res("ConflictingQuery", uri, FALSE, st, dashCtx)
  ELSE IF ~IsTrue(field) /\ (TypeOf(field) # "string" \/ field.v = "")
  THEN Res("InvalidContextQueryField", uri, FALSE, st, dashCtx)
  ELSE IF IsTrue(field)
  THEN Res(NoError, Put(Delete(uri, SIMPLE_QUERY), "body", Put(body, "query", dashCtx)), FALSE,
           [st EXCEPT !.ctx = @ + 1], dashCtx)
  ELSE RangeQuery(Delete(uri, SIMPLE_QUERY), body,
                  PushRange(dashCtx, field, [st EXCEPT !.ctx = @ + 1]))

\* uri.body = uri.body || {}
WithBody(uri) ==
  Put(uri, "body", IF Truthy(Get(uri, "body")) THEN Get(uri, "body") ELSE O(<<>>))

\* the request after the walk over body.query of line 38
WalkedQuery(uri, r) ==
  Res(r.st.err, Put(uri, "body", Upd(Get(uri, "body"), "query", r.val)), FALSE, r.st, dashCtx)

\* lines 15-39
QueryStage(uri, st) ==
  IF Truthy(Get(uri, SIMPLE_QUERY))
  THEN SimpleQuery(uri, Get(uri, "body"), Get(uri, SIMPLE_QUERY), st)
  ELSE WalkedQuery(uri, injectQueryContextVars(Get(Get(uri, "body"), "query"), TRUE, st))

\* es.search(uri) after the walk over body.aggs of line 41
Search(q, a) ==
  Res(a.st.err, Put(q.val, "body", Upd(Get(q.val, "body"), "aggs", a.val)), a.st.err = NoError,
      a.st, q.ctx)

\* lines 41-43
AggsStage(q) ==
  IF q.err # NoError
  THEN q
  ELSE Search(q, injectQueryContextVars(Get(Get(q.val, "body"), "aggs"), FALSE, q.st))

queryEsData(uri, st) == AggsStage(QueryStage(WithBody(uri), st))

\* a string uri reaches the default loader whatever the flag says
load_ignoresFlag(uri, opts, st) ==
  IF TypeOf(uri) = "object"
  THEN IF StrEq(Get(opts, "context"), "dataflow")
       THEN queryEsData(uri, st)
       ELSE Res("UnexpectedUrlObject", uri, FALSE, st, dashCtx)
  ELSE [Res(NoError, uri, FALSE, st, dashCtx) EXCEPT !.defaultLoad = TRUE]

\* loader.load
load(uri, opts, st) ==
  IF TypeOf(uri) = "object"
  THEN IF StrEq(Get(opts, "context"), "dataflow")
       THEN queryEsData(uri, st)
       ELSE Res("UnexpectedUrlObject", uri, FALSE, st, dashCtx)
  ELSE IF ~enableExternalUrls
  THEN Res("ExternalUrlsDisabled", uri, FALSE, st, dashCtx)
  ELSE [Res(NoError, uri, FALSE, st, dashCtx) EXCEPT !.defaultLoad = TRUE]

(***************************************************************************)
(* Inputs.                                                                 *)
(***************************************************************************)
O1(k, x) == O(<<KV(k, x)>>)
O2(k1, x1, k2, x2) == O(<<KV(k1, x1), KV(k2, x2)>>)
O3(k1, x1, k2, x2, k3, x3) == O(<<KV(k1, x1), KV(k2, x2), KV(k3, x3)>>)

\* the time ranges the provider reports
BoundsSet == {[min |-> 1000, max |-> 9000], [min |-> 2000, max |-> 2000000]}

\* dashboard filters
T1 == O1("term", O1("a", N(1)))
T2 == O1("term", O1("b", N(2)))
T3 == O1("match_all", O(<<>>))
MustPool == <<T1, T2, T3, T1>>
MustNotPool == <<T2, T3, T1, T2>>

\* a clause field: absent, falsy, one fragment, or a sequence of up to MaxMust
ClauseVals(pool) ==
  {Undef, Null, pool[1]} \cup {A(SubSeq(pool, 1, k)) : k \in 0..MaxMust}

Ctx(must, mustNot) ==
  O1("bool", O((IF must = Undef THEN <<>> ELSE <<KV("must", must)>>)
               \o (IF mustNot = Undef THEN <<>> ELSE <<KV("must_not", mustNot)>>)))

\* a filter that itself holds a placeholder
CtxPlaceholder == Ctx(A(<<O1("range", O1("ts", O1(TIMEFILTER, B(TRUE))))>>), Undef)

CtxSet ==
  {Null, O(<<>>)}
  \cup {Ctx(m, n) : m \in ClauseVals(MustPool), n \in ClauseVals(MustNotPool)}

\* values without a placeholder
Leaves == {S("x"), S(""), N(0), N(7), B(TRUE), B(FALSE), Null, O(<<>>), A(<<>>),
           A(<<S("y"), N(3)>>), O1("k", S("v"))}

\* objects holding '%timefilter%', with the shift and unit options
ShiftVals == {Undef, N(0), N(2), N(0 - 1), S("1"), S(""), B(FALSE), B(TRUE), Null}
UnitVals == {Undef, S("h"), S("week"), S("y"), S("")}

Opts(tf, shift, unit) ==
  O((IF tf = Undef THEN <<>> ELSE <<KV(TIMEFILTER, tf)>>)
    \o (IF shift = Undef THEN <<>> ELSE <<KV("shift", shift)>>)
    \o (IF unit = Undef THEN <<>> ELSE <<KV("unit", unit)>>))

OptsSet == {Opts(Undef, sh, u) : sh \in ShiftVals, u \in UnitVals}

TimePlaceholders ==
  {Opts(tf, sh, Undef) : tf \in {S("min"), S("max"), B(TRUE)}, sh \in ShiftVals}
  \cup {Opts(tf, N(2), u) : tf \in {S("max"), B(TRUE)}, u \in UnitVals}
  \cup {O1(TIMEFILTER, S("bogus")), O1(TIMEFILTER, Null), O1(TIMEFILTER, N(0)),
         O2(TIMEFILTER, B(TRUE), "n", O1(TIMEFILTER, S("min"))),
         O2(TIMEFILTER, B(TRUE), "n", O1("m", O1(TIMEFILTER, S("max")))),
         O2(TIMEFILTER, B(TRUE), "n", O1(TIMEFILTER, S("bogus"))),
         O2(TIMEFILTER, S("min"), "n", O1(TIMEFILTER, S("max"))),
         O2(TIMEFILTER, B(TRUE), "n", A(<<S(MUST_CLAUSE)>>)),
         O2(TIMEFILTER, B(TRUE), AUTOINTERVAL, B(TRUE)),
         O1(TIMEFILTER, O1(TIMEFILTER, S("min")))}

IntervalPlaceholders ==
  {O1(AUTOINTERVAL, x) : x \in {B(TRUE), N(10), N(0 - 4), N(0), S("a"), B(FALSE), O(<<>>)}}

Placeholders == TimePlaceholders \cup IntervalPlaceholders

\* sequences of up to n elements of a set
RECURSIVE SeqsUpTo(_, _)
SeqsUpTo(set, n) ==
  IF n = 0 THEN {<<>>}
  ELSE LET shorter == SeqsUpTo(set, n - 1)
       IN shorter \cup {Append(q, e) : q \in {x \in shorter : Len(x) = n - 1}, e \in set}

Elems == {S(MUST_CLAUSE), S(MUST_NOT_CLAUSE), S("x"), O1("a", O1(TIMEFILTER, S("min")))}

MarkerArrays == {A(q) : q \in SeqsUpTo(Elems, MaxLen)}

Values == Leaves \cup Placeholders

Docs ==
  Values
  \cup MarkerArrays
  \cup {O1(k, x) : k \in {"a", "interval"}, x \in Values}
  \cup {O1("q", O1(k, x)) : k \in {"a", "interval"}, x \in Values}
  \cup {A(<<x>>) : x \in Values}
  \cup {A(<<O1("a", x)>>) : x \in Placeholders}
  \cup {O2("a", x, "b", y) : x, y \in {S("x"), O1(TIMEFILTER, S("max")), O1(TIMEFILTER, S("bogus")),
                                        Opts(B(TRUE), S("1"), Undef)}}
  \cup {O1("bool", O2("must", A(<<S(MUST_CLAUSE), O1("range", O1("ts", x))>>),
                       "must_not", A(<<S(MUST_NOT_CLAUSE)>>))) : x \in Placeholders}

\* durations around every bound of the table of roundInterval
Marks == {<<0, 500>>, <<5, 0>>, <<7, 500>>, <<15, 0>>, <<45, 0>>, <<180, 0>>, <<450, 0>>,
          <<1200, 0>>, <<2700, 0>>, <<7200, 0>>, <<21600, 0>>, <<86400, 0>>, <<604800, 0>>,
          <<1814400, 0>>, <<3628800, 0>>}

Durs ==
  {Dur(0, 0), Dur(9999999, 999)}
  \cup {Dur(m[1], m[2]) : m \in Marks}
  \cup {[Dur(m[1], m[2]) EXCEPT !.frac = TRUE] : m \in Marks}
  \cup {Dur(m[1], m[2] + 1) : m \in Marks}
  \cup {IF m[2] = 0 THEN Dur(m[1] - 1, 999) ELSE Dur(m[1], m[2] - 1) : m \in Marks}

(***************************************************************************)
(* Single calls of the helpers: the call is drawn at the start, one action *)
(* runs it, and the walker may be run again over its own result.           *)
(***************************************************************************)
NoOutcome == [err |-> NoError, val |-> Undef, sent |-> FALSE, defaultLoad |-> FALSE,
              st |-> St(NoBounds), ctx |-> Undef]

Outcome(r) == [NoOutcome EXCEPT !.err = r.st.err, !.val = r.val, !.st = r.st, !.ctx = dashCtx]

Calls ==
  {[op |-> "injectQueryContextVars", pass |-> 0, arg |-> d, opt |-> B(q), mid |-> Undef] :
     d \in Docs, q \in BOOLEAN}
  \cup {[op |-> "getTimeBound", pass |-> 0, arg |-> o, opt |-> S(w), mid |-> Undef] :
          o \in OptsSet, w \in {"min", "max"}}
  \cup {[op |-> "createRangeFilter", pass |-> 0, arg |-> o, opt |-> Undef, mid |-> Undef] :
          o \in OptsSet \cup TimePlaceholders}
  \cup {[op |-> "roundInterval", pass |-> 0, arg |-> <<x, y>>, opt |-> Undef, mid |-> Undef] :
          x, y \in Durs}

InitWith(contexts) ==
  /\ tfBounds \in BoundsSet
  /\ call \in Calls
  /\ dashCtx \in IF call.op = "injectQueryContextVars" THEN contexts ELSE {Null}
  /\ ctxByRef = FALSE
  /\ enableExternalUrls = FALSE
  /\ _timeBounds = NoBounds
  /\ outcome = NoOutcome

InitFun == InitWith(CtxSet) \/ InitWith({CtxPlaceholder})

Env == <<tfBounds, dashCtx, ctxByRef, enableExternalUrls>>

\* the helper returned r
Returned(r) == outcome' = Outcome(r) /\ _timeBounds' = r.st.tb

Inject ==
  /\ call.op = "injectQueryContextVars" /\ call.pass = 0
  /\ Returned(injectQueryContextVars(call.arg, call.opt.v, St(_timeBounds)))
  /\ call' = [call EXCEPT !.pass = 1]
  /\ UNCHANGED Env

InjectAgain ==
  /\ call.op = "injectQueryContextVars" /\ call.pass = 1 /\ outcome.err = NoError
  /\ Returned(injectQueryContextVars(outcome.val, call.opt.v, St(_timeBounds)))
  /\ call' = [call EXCEPT !.pass = 2, !.mid = outcome.val]
  /\ UNCHANGED Env

GetTimeBound ==
  /\ call.op = "getTimeBound" /\ call.pass = 0
  /\ Returned(getTimeBound(call.arg, call.opt.v, St(_timeBounds)))
  /\ call' = [call EXCEPT !.pass = 1]
  /\ UNCHANGED Env

CreateRangeFilter ==
  /\ call.op = "createRangeFilter" /\ call.pass = 0
  /\ Returned(createRangeFilter(call.arg, St(_timeBounds)))
  /\ call' = [call EXCEPT !.pass = 1]
  /\ UNCHANGED Env

RoundInterval ==
  /\ call.op = "roundInterval" /\ call.pass = 0
  /\ outcome' = [NoOutcome EXCEPT !.val = <<roundInterval(call.arg[1]), roundInterval(call.arg[2])>>]
  /\ call' = [call EXCEPT !.pass = 1]
  /\ UNCHANGED <<Env, _timeBounds>>

NextFun == Inject \/ InjectAgain \/ GetTimeBound \/ CreateRangeFilter \/ RoundInterval

SpecFun == InitFun /\ [][NextFun]_vars

(***************************************************************************)
(* The loader in use: requests arrive one after another while the time     *)
(* range and the dashboard filters change between them.                    *)
(***************************************************************************)
TimeField == "@timestamp"

Histogram ==
  O1("h", O1("date_histogram",
             O2("interval", O1(AUTOINTERVAL, B(TRUE)),
                "extended_bounds", O2("min", O1(TIMEFILTER, S("min")),
                                      "max", O1(TIMEFILTER, S("max"))))))

Query ==
  O1("bool", O2("must", A(<<S(MUST_CLAUSE), O1("range", O1(TimeField, O1(TIMEFILTER, B(TRUE))))>>),
                "must_not", A(<<S(MUST_NOT_CLAUSE)>>)))

\* the values '%context_query%' is given
MarkerVals == {B(TRUE), S(TimeField), S(""), B(FALSE), N(0), Null, N(5), O(<<>>)}

Uris ==
  {S("http://example.org/data.json"), O1("index", S("logs")),
   O2(SIMPLE_QUERY, S(TimeField), "body", O1("aggs", Histogram)),
   O2(SIMPLE_QUERY, S(TimeField), "body", O1("query", Query)),
   O1("body", O2("query", Query, "aggs", Histogram))}
  \cup {O1(SIMPLE_QUERY, x) : x \in MarkerVals}

OptsVals == {O1("context", S("dataflow")), O1("context", S("other")), O(<<>>)}

\* the contexts the dashboard reports: each clause field absent, one fragment, or a sequence
LoaderCtxSet ==
  {Null, Ctx(Undef, Undef), Ctx(T1, Undef), Ctx(A(<<>>), T2)}
  \cup {Ctx(A(SubSeq(MustPool, 1, MaxMust)), A(SubSeq(MustNotPool, 1, MaxMust)))}

NoCall == [op |-> "none", uri |-> Undef, opts |-> Undef, bounds |-> Undef, ctx |-> Undef,
           tb |-> NoBounds]

Init ==
  /\ tfBounds \in BoundsSet
  /\ dashCtx \in LoaderCtxSet
  /\ ctxByRef \in BOOLEAN
  /\ enableExternalUrls \in BOOLEAN
  /\ _timeBounds = NoBounds
  /\ call = NoCall
  /\ outcome = NoOutcome

\* the number of clauses bool.must holds
MustLen(ctx) ==
  LET must == Get(Get(ctx, "bool"), "must")
  IN IF IsArray(must) THEN Len(must.v) ELSE 0

\* the user moves the time picker; the result of the last call is dropped
SetBounds(b) ==
  /\ b # tfBounds
  /\ tfBounds' = b
  /\ call' = NoCall
  /\ outcome' = NoOutcome
  /\ UNCHANGED <<dashCtx, ctxByRef, enableExternalUrls, _timeBounds>>

\* the user changes the dashboard filters; the result of the last call is dropped
SetContext(c) ==
  /\ c # dashCtx
  /\ dashCtx' = c
  /\ call' = NoCall
  /\ outcome' = NoOutcome
  /\ UNCHANGED <<tfBounds, ctxByRef, enableExternalUrls, _timeBounds>>

\* the call left r
Loaded(r) == outcome' = r /\ _timeBounds' = r.st.tb /\ dashCtx' = r.ctx

\* loader.load(uri, opts)
Load(uri, opts) ==
  /\ MustLen(dashCtx) <= MaxMust
  /\ Loaded(load(uri, opts, St(_timeBounds)))
  /\ call' = [op |-> "load", uri |-> uri, opts |-> opts, bounds |-> tfBounds, ctx |-> dashCtx,
              tb |-> _timeBounds]
  /\ UNCHANGED <<tfBounds, ctxByRef, enableExternalUrls>>

Next ==
  \/ \E b \in BoundsSet : SetBounds(b)
  \/ \E c \in LoaderCtxSet : SetContext(c)
  \/ \E uri \in Uris, opts \in OptsVals : Load(uri, opts)

Spec == Init /\ [][Next]_vars

(***************************************************************************)
(* Properties of the loader in use (Spec).                                 *)
(***************************************************************************)
RECURSIVE At(_, _)
\* the value found by following a path of keys
At(x, path) == IF path = <<>> THEN x ELSE At(Get(x, Head(path)), Tail(path))

IsQueryCall == call.op = "load" /\ IsMap(call.uri) /\ StrEq(Get(call.opts, "context"), "dataflow")

\* the clauses of the request that reached es.search
SentMust == At(outcome.val, <<"body", "query", "bool", "must">>)

RangeClause(field, bounds) ==
  O1("range", O1(field, O3("gte", N(bounds.min), "lte", N(bounds.max), "format", S("epoch_millis"))))

IsRangeOn(x, field) == IsMap(At(x, <<"range", field>>))

SentBounds == At(outcome.val, <<"body", "aggs", "h", "date_histogram", "extended_bounds">>)

SentInterval == At(outcome.val, <<"body", "aggs", "h", "date_histogram", "interval">>)

\* the request asked for a range filter on the time field
AsksRange == StrEq(Get(call.uri, SIMPLE_QUERY), TimeField)

\* the request asked for the histogram over the time range
AsksHistogram == At(call.uri, <<"body", "aggs">>) = Histogram

\* C1: every time bound a queryEsData call writes into the request (gte/lte of
\* the range filter, the min/max scalars, the span of the auto-interval) comes
\* from the bounds the provider reports during that call.
C1_BoundsOfThisCall ==
  (IsQueryCall /\ outcome.sent) =>
    /\ AsksRange =>
         SentMust.v[Len(SentMust.v)] = RangeClause(TimeField, call.bounds)
    /\ AsksHistogram =>
         /\ SentBounds = O2("min", N(call.bounds.min), "max", N(call.bounds.max))
         /\ SentInterval = S(roundInterval(Quot(call.bounds.max - call.bounds.min, 50)))

\* the must clauses of a dashboard context, as a sequence
MustOf(ctx) ==
  LET must == At(ctx, <<"bool", "must">>)
  IN IF must = Undef THEN <<>> ELSE IF IsArray(must) THEN must.v ELSE <<must>>

\* C2: a call with '%context_query%' naming a field and no body.query reaches
\* es.search with bool.must = the dashboard's must clauses plus exactly one
\* range filter on the field, for a context with must absent, single or a
\* sequence; the range filters do not pile up from call to call.
C2_ContextPlusOneRange ==
  (IsQueryCall /\ AsksRange /\ ~Truthy(At(call.uri, <<"body", "query">>)) /\ HasKey(call.ctx, "bool")) =>
    /\ outcome.sent
    /\ IsArray(SentMust)
    /\ Cardinality({i \in 1..Len(SentMust.v) : IsRangeOn(SentMust.v[i], TimeField)}) = 1
    /\ \E n \in 0..Len(SentMust.v) - 1 :
         /\ SubSeq(SentMust.v, 1, n) = SubSeq(MustOf(call.ctx), 1, n)
         /\ n = Cardinality({i \in 1..Len(MustOf(call.ctx)) : ~IsRangeOn(MustOf(call.ctx)[i], TimeField)})
         /\ SentMust.v[Len(SentMust.v)] = RangeClause(TimeField, call.bounds)

\* C5: the default loader is reached only for a non-object uri with external
\* URLs enabled; a non-object uri with the flag off fails with
\* ExternalUrlsDisabled; an object uri outside the 'dataflow' context fails
\* with UnexpectedUrlObject; es.search is reached only for an object uri in
\* the 'dataflow' context.
C5_LoadDispatch ==
  call.op = "load" =>
    /\ outcome.defaultLoad => (TypeOf(call.uri) # "object" /\ enableExternalUrls)
    /\ (TypeOf(call.uri) # "object" /\ enableExternalUrls) => (outcome.defaultLoad /\ outcome.err = NoError)
    /\ (TypeOf(call.uri) # "object" /\ ~enableExternalUrls) => outcome.err = "ExternalUrlsDisabled"
    /\ (TypeOf(call.uri) = "object" /\ ~StrEq(Get(call.opts, "context"), "dataflow"))
         => outcome.err = "UnexpectedUrlObject"
    /\ outcome.sent => (TypeOf(call.uri) = "object" /\ StrEq(Get(call.opts, "context"), "dataflow"))

C5_Witness ==
  /\ call.op = "load" /\ TypeOf(call.uri) # "object" /\ enableExternalUrls
  /\ outcome.defaultLoad /\ _timeBounds # NoBounds

\* C6: a '%context_query%' that is neither true nor a non-empty string makes
\* the call fail with InvalidContextQueryField before es.search is reached.
C6_InvalidMarkerRejected ==
  (IsQueryCall /\ HasKey(call.uri, SIMPLE_QUERY)
     /\ ~IsTrue(Get(call.uri, SIMPLE_QUERY))
     /\ ~(Get(call.uri, SIMPLE_QUERY).t = "string" /\ Get(call.uri, SIMPLE_QUERY).v # "")) =>
    (outcome.err = "InvalidContextQueryField" /\ ~outcome.sent)

(***************************************************************************)
(* Properties of single calls (SpecFun).                                   *)
(***************************************************************************)
Walked == call.op = "injectQueryContextVars" /\ call.pass = 1 /\ outcome.err = NoError

IsMarker(x) == StrEq(x, MUST_CLAUSE) \/ StrEq(x, MUST_NOT_CLAUSE)

\* the elements a clause marker stands for under the dashboard context
Expansion(marker) ==
  LET clause == At(dashCtx, <<"bool", IF StrEq(marker, MUST_CLAUSE) THEN "must" ELSE "must_not">>)
  IN IF ~Truthy(clause) THEN <<>> ELSE IF IsArray(clause) THEN clause.v ELSE <<clause>>

RECURSIVE Expected(_)
\* a sequence with every marker expanded in place and every other element walked
Expected(arr) ==
  IF arr = <<>> THEN <<>>
  ELSE (IF IsMarker(Head(arr))
        THEN Expansion(Head(arr))
        ELSE <<injectQueryContextVars(Head(arr), TRUE, St(_timeBounds)).val>>)
       \o Expected(Tail(arr))

RECURSIVE Growth(_)
\* the change of length the markers of a sequence cause: k - 1 for each
Growth(arr) ==
  IF arr = <<>> THEN 0
  ELSE (IF IsMarker(Head(arr)) THEN Len(Expansion(Head(arr))) - 1 ELSE 0) + Growth(Tail(arr))

\* C3: with isQuery = true a marker is replaced in place by the k elements of a
\* sequence clause (length + k - 1), by a single fragment, or removed when the
\* clause is absent or falsy (length - 1); the elements after it, adjacent
\* markers included, are still processed and the other elements keep their order.
C3_SpliceInPlace ==
  (Walked /\ IsArray(call.arg) /\ call.opt.v) =>
    /\ IsArray(outcome.val)
    /\ Len(outcome.val.v) = Len(call.arg.v) + Growth(call.arg.v)
    /\ outcome.val.v = Expected(call.arg.v)

C3_Witness ==
  /\ Walked /\ IsArray(call.arg) /\ call.opt.v
  /\ Len(call.arg.v) = 3
  /\ StrEq(call.arg.v[1], MUST_NOT_CLAUSE) /\ StrEq(call.arg.v[2], MUST_CLAUSE)
  /\ IsMap(call.arg.v[3])
  /\ At(dashCtx, <<"bool", "must_not">>) = Undef
  /\ Len(Expansion(S(MUST_CLAUSE))) = 2
  /\ Len(outcome.val.v) = 3
  /\ outcome.val.v[3] # call.arg.v[3]

\* a mapping still carrying '%timefilter%': 'min', 'max' or true
Live(x) ==
  LET tf == Get(x, TIMEFILTER)
  IN StrEq(tf, "min") \/ StrEq(tf, "max") \/ IsTrue(tf)

RECURSIVE NoneLive(_)
\* no mapping of the tree carries a live '%timefilter%'
NoneLive(x) ==
  IF IsMap(x) THEN ~Live(x) /\ \A i \in 1..Len(x.v) : NoneLive(x.v[i].val)
  ELSE IF IsArray(x) THEN \A i \in 1..Len(x.v) : NoneLive(x.v[i])
  ELSE TRUE

\* C4 as stated: after a walk that returned, no mapping anywhere in the tree
\* (root, value of a key, element of a sequence, nested in a placeholder)
\* carries '%timefilter%': 'min', 'max' or true.
C4_NoTimefilterAnywhere == Walked => NoneLive(outcome.val)

\* a range filter as createRangeFilter leaves it
IsRangeFilter(x) == HasKey(x, "gte") /\ HasKey(x, "lte") /\ StrEq(Get(x, "format"), "epoch_millis")

\* an element the walker copied from the dashboard context
IsContextClause(x) ==
  call.opt.v /\ \E m \in {S(MUST_CLAUSE), S(MUST_NOT_CLAUSE)} :
                  \E i \in 1..Len(Expansion(m)) : Expansion(m)[i] = x

RECURSIVE KeyValuesResolved(_, _, _)
\* every mapping that is the value of a key carries no live '%timefilter%',
\* unless it lies inside a produced range filter or a copied context clause
KeyValuesResolved(x, atKey, inside) ==
  IF IsMap(x)
  THEN /\ (atKey /\ ~inside) => ~Live(x)
       /\ \A i \in 1..Len(x.v) : KeyValuesResolved(x.v[i].val, TRUE, inside \/ IsRangeFilter(x))
  ELSE IF IsArray(x)
  THEN \A i \in 1..Len(x.v) : KeyValuesResolved(x.v[i], FALSE, inside \/ IsContextClause(x.v[i]))
  ELSE TRUE

\* C4 amended: after a walk that returned, no mapping that is the value of a
\* mapping key carries a live '%timefilter%', at any depth, except inside a
\* range filter the walker produced or a clause it copied from the dashboard
\* context; the root and the elements of a sequence are not examined.
C4_KeyValuesResolved == Walked => KeyValuesResolved(outcome.val, FALSE, FALSE)

C4_Witness ==
  /\ Walked
  /\ call.arg = O1("q", O1("a", Opts(S("max"), N(2), Undef)))
  /\ At(outcome.val, <<"q", "a">>) = N(tfBounds.max + 2 * 86400000)

RECURSIVE HasPlaceholder(_)
\* a '%timefilter%' or '%autointerval%' key, or a clause marker in a sequence
HasPlaceholder(x) ==
  IF IsMap(x)
  THEN \/ HasKey(x, TIMEFILTER) \/ HasKey(x, AUTOINTERVAL)
       \/ \E i \in 1..Len(x.v) : HasPlaceholder(x.v[i].val)
  ELSE IF IsArray(x)
  THEN \E i \in 1..Len(x.v) : IsMarker(x.v[i]) \/ HasPlaceholder(x.v[i])
  ELSE FALSE

WalkedTwice == call.op = "injectQueryContextVars" /\ call.pass = 2

\* C7 as stated: a second walk over the result of a walk that returned
\* changes nothing, for every document.
C7_SecondPassNoOp == WalkedTwice => (outcome.err = NoError /\ outcome.val = call.mid)

RECURSIVE NoNestedPlaceholder(_)
\* no { '%timefilter%': true } object holds a placeholder of its own
NoNestedPlaceholder(x) ==
  IF IsMap(x)
  THEN /\ IsTrue(Get(x, TIMEFILTER)) => \A i \in 1..Len(x.v) : ~HasPlaceholder(x.v[i].val)
       /\ \A i \in 1..Len(x.v) : NoNestedPlaceholder(x.v[i].val)
  ELSE IF IsArray(x)
  THEN \A i \in 1..Len(x.v) : NoNestedPlaceholder(x.v[i])
  ELSE TRUE

\* the dashboard context brings no placeholder of its own
ContextClean ==
  \A m \in {S(MUST_CLAUSE), S(MUST_NOT_CLAUSE)} :
    \A i \in 1..Len(Expansion(m)) : ~IsMarker(Expansion(m)[i]) /\ ~HasPlaceholder(Expansion(m)[i])

\* C7 amended: a second walk changes nothing when no { '%timefilter%': true }
\* object of the document holds a placeholder nested inside it and, for
\* isQuery = true, the dashboard clauses hold no placeholder or marker.
C7_SecondPassNoOpWhenFlat ==
  (WalkedTwice /\ NoNestedPlaceholder(call.arg) /\ (call.opt.v => ContextClean)) =>
    (outcome.err = NoError /\ outcome.val = call.mid)

C7_Witness ==
  /\ WalkedTwice /\ call.opt.v /\ ContextClean
  /\ call.arg = O1("bool", O2("must", A(<<S(MUST_CLAUSE), O1("range", O1("ts", Opts(B(TRUE), N(2), Undef)))>>),
                              "must_not", A(<<S(MUST_NOT_CLAUSE)>>)))
  /\ Len(Expansion(S(MUST_CLAUSE))) = 2
  /\ call.mid # call.arg
  /\ outcome.val = call.mid

\* C8: a shift that is present and not a number makes getTimeBound, and
\* createRangeFilter through it, fail with InvalidShift.
C8_NonNumericShiftRejected ==
  (call.op \in {"getTimeBound", "createRangeFilter"} /\ call.pass = 1
     /\ HasKey(call.arg, "shift") /\ Get(call.arg, "shift").t # "number") =>
    outcome.err = "InvalidShift"

\* C9: a document without placeholder is walked without error, is left as it
\* was, and neither provider is called, for both values of isQuery.
C9_NoPlaceholderNoChange ==
  (call.op = "injectQueryContextVars" /\ call.pass = 1 /\ ~HasPlaceholder(call.arg)) =>
    /\ outcome.err = NoError
    /\ outcome.val = call.arg
    /\ outcome.st.tf = 0 /\ outcome.st.ctx = 0
    /\ _timeBounds = NoBounds

C9_Witness ==
  /\ call.op = "injectQueryContextVars" /\ call.pass = 1
  /\ call.arg = O1("q", O1("interval", S("x")))
  /\ outcome.val = call.arg /\ outcome.err = NoError

\* the table of C10: bound (seconds, milliseconds), strict or not, bucket
Table ==
  <<[s |-> 0, ms |-> 500, strict |-> FALSE, name |-> "100ms"],
    [s |-> 5, ms |-> 0, strict |-> FALSE, name |-> "1s"],
    [s |-> 7, ms |-> 500, strict |-> FALSE, name |-> "5s"],
    [s |-> 15, ms |-> 0, strict |-> FALSE, name |-> "10s"],
    [s |-> 45, ms |-> 0, strict |-> FALSE, name |-> "30s"],
    [s |-> 180, ms |-> 0, strict |-> FALSE, name |-> "1m"],
    [s |-> 450, ms |-> 0, strict |-> FALSE, name |-> "5m"],
    [s |-> 1200, ms |-> 0, strict |-> FALSE, name |-> "10m"],
    [s |-> 2700, ms |-> 0, strict |-> FALSE, name |-> "30m"],
    [s |-> 7200, ms |-> 0, strict |-> FALSE, name |-> "1h"],
    [s |-> 21600, ms |-> 0, strict |-> FALSE, name |-> "3h"],
    [s |-> 86400, ms |-> 0, strict |-> FALSE, name |-> "12h"],
    [s |-> 604800, ms |-> 0, strict |-> FALSE, name |-> "24h"],
    [s |-> 1814400, ms |-> 0, strict |-> FALSE, name |-> "1w"],
    [s |-> 3628800, ms |-> 0, strict |-> TRUE, name |-> "30d"]>>

\* x is no longer than y
NoLonger(x, y) ==
  \/ x.s < y.s
  \/ x.s = y.s /\ x.ms < y.ms
  \/ x.s = y.s /\ x.ms = y.ms /\ (y.frac \/ ~x.frac)

Admits(row, x) ==
  /\ NoLonger(x, Dur(row.s, row.ms))
  /\ row.strict => x # Dur(row.s, row.ms)

\* the place of a bucket in the table, the fallback '1y' last
Rank(name) ==
  IF \E i \in 1..Len(Table) : Table[i].name = name
  THEN CHOOSE i \in 1..Len(Table) : Table[i].name = name
  ELSE IF name = "1y" THEN Len(Table) + 1 ELSE 0

\* the first entry of the table whose bound admits x
TableRank(x) ==
  IF \E i \in 1..Len(Table) : Admits(Table[i], x)
  THEN CHOOSE i \in 1..Len(Table) : Admits(Table[i], x) /\ \A j \in 1..(i - 1) : ~Admits(Table[j], x)
  ELSE Len(Table) + 1

====
